---- MODULE Spec2Model ----
(***************************************************************************)
(* A model of guillotina's Request (src/guillotina/request.py): the body   *)
(* reader (read / release / can_read_body) over the payload stream, the    *)
(* reify-cached derived attributes and uid, and the task-local "current    *)
(* request" binding set by __enter__; the deferred futures it hands to     *)
(* guillotina.utils.execute, its mapping interface over _state, and the    *)
(* WebSocket adapter returned by get_ws().                                 *)
(*                                                                         *)
(* SpecBody: one task driving read/release/can_read_body over a stream.    *)
(* SpecCtx:  two tasks entering and leaving request scopes.                *)
(* SpecLazy: attribute and uid reads between the steps of body operations. *)
(* SpecRace: two units reading reified attributes, step by step.           *)
(* SpecFutures: add/get/execute/clear of futures and the scheduled entries.*)
(* SpecMap:  the mapping operations over _state.                           *)
(* SpecRelease: SpecBody with a scheduler that resumes ready awaits.       *)
(* SpecLimit: read() on Requests built with and without client_max_size.   *)
(* SpecWS:   one WebSocket adapter and its peer.                           *)
(* SpecBody2: two tasks calling read() on one Request.                     *)
(***************************************************************************)
EXTENDS Integers, Sequences, FiniteSets, TLC

\* ------------------------------------------------------------------ bounds
\* Most chunks a payload stream delivers before end-of-file.
MaxChunks == 2
\* Largest client_max_size tried (0 disables the limit).
MaxLimit == 3
\* Most read()/release() calls one run makes.
MaxCalls == 3
\* Deepest nesting of request scopes (with / async with) in one task.
MaxDepth == 2
\* Most attribute and uid accesses one run makes.
MaxAccess == 4
\* Most attribute accesses one unit makes when accesses are interleaved.
MaxRaceReads == 2
\* Most futures one run registers.
MaxFutures == 2
\* Most __setitem__/__delitem__ calls one run makes.
MaxMapOps == 3
\* Most text frames the peer sends, and most the adapter sends.
MaxMsgs == 2

\* ------------------------------------------------------------- value space
\* Optional values: None is <<>>, Some(v) is <<v>>.
None == <<>>
Some(v) == <<v>>

\* The chunks readany() may return: non-empty byte strings (bytes are 1, 2).
Chunks == {<<1>>, <<2>>, <<1, 2>>}

RECURSIVE SeqsUpTo(_, _)
SeqsUpTo(S, n) ==
    IF n = 0 THEN {<<>>}
    ELSE LET shorter == SeqsUpTo(S, n - 1)
         IN  shorter \cup {Append(s, x) : s \in shorter, x \in S}

Payloads == SeqsUpTo(Chunks, MaxChunks)

\* client_max_size: int=1024**2 (line 75).
DefaultClientMaxSize == 1048576

\* A chunk of 1024**2 bytes, not written out: the byte value 0 stands for a
\* run of that many zero bytes.
BigChunk == <<0>>

\* len() of a byte string (line 320).
RECURSIVE ByteLen(_)
ByteLen(b) ==
    IF b = <<>> THEN 0
    ELSE (IF Head(b) = 0 THEN DefaultClientMaxSize ELSE 1) + ByteLen(Tail(b))

\* Streams that deliver small chunks and chunks of 1024**2 bytes.
BigPayloads == SeqsUpTo({<<1>>, <<1, 2>>, BigChunk}, MaxChunks)

\* bytes concatenation of a sequence of chunks, in order.
RECURSIVE Concat(_)
Concat(cs) == IF cs = <<>> THEN <<>> ELSE Head(cs) \o Concat(Tail(cs))

Tasks == {"t1", "t2"}

\* Request instances that tasks enter; NoRequest is the unset binding.
Requests == {"A", "B"}
NoRequest == "None"

VARIABLES
    \* ---- the payload stream handed to Request.__init__ (line 88)
    payload0,          \* the chunks the stream delivers, in order
    pos,               \* how many of them readany() has returned
    eof,               \* the transport has fed end-of-file
    \* ---- Request fields
    client_max_size,   \* self._client_max_size (line 90)
    _read_bytes,       \* self._read_bytes (line 95): None or Some(bytes)
    \* ---- each task's position in read() / release()
    pc,                \* "idle", "read_await" (line 317), "rel_await" (line 307)
    body,              \* read()'s local bytearray (line 315)
    callStart,         \* pos when the task's current/last call began
    result,            \* outcome of the task's last call
    \* ---- observation
    lastOp,            \* the operation that made the last step
    ncalls,            \* read()/release() calls made
    nreadany,          \* readany() calls completed on the stream
    okReads,           \* one entry per read() that returned: value, nreadany
    crbFirst,          \* first value can_read_body returned (None before)
    crbLast,           \* latest value can_read_body returned
    \* ---- the task-local current request (task_vars.request)
    ctx,               \* per task: the Request bound, or NoRequest
    scopes,            \* per task: the open scopes, innermost last, each
                       \* with the binding that held when it was entered
    exited,            \* per task: the scope left last, None after an entry
    lastEntered,       \* per task: the Request it entered last
    \* ---- what Request.__init__ keeps of the connection (lines 81-87)
    _scheme, _rel_url, _raw_headers, _query_string,
    \* ---- derived attributes
    _cache,            \* self._cache (line 97): per reified name, None or Some
    _headers,          \* self._headers, set by headers (line 270)
    _uid,              \* self._uid (line 64): None or Some(uid)
    runs,              \* per attribute: times its function has run
    nacc,              \* per attribute (and uid): accesses made
    got,               \* per attribute: the value its latest access returned
    gotFirst,          \* per attribute: the value its first access returned
    uidFirst,          \* the value the first uid access returned
    uidLast,           \* the value the latest uid access returned
    \* ---- attribute accesses in progress, step by step, per unit
    stack,             \* per unit: the reify calls in progress, innermost last
    rgot,              \* per unit: the accesses that returned, in order
    \* ---- construction
    max_size_arg,      \* the client_max_size argument: None when left out
    \* ---- deferred futures
    _futures,          \* self._futures (line 98)
    registry,          \* guillotina.utils.execute: per scope, the entries
    registered,        \* every add_future call made: name, scope, fails
    scheduled,         \* entries handed to the loop, not yet run
    nrun,              \* per entry: times its callable has been run
    reported,          \* entries whose failure was logged
    executed,          \* per scope: the entries its execute_futures calls took
    clearedAt,         \* entries the registry held at the last clear_futures
    fres,              \* outcome of the last futures operation
    \* ---- mapping interface
    _state,            \* self._state (line 96)
    mlog,              \* the __setitem__/__delitem__ calls made, in order
    mres,              \* outcome of the last mapping operation
    \* ---- WebSocket adapter (GuillotinaWebSocket.ws) and its peer
    ws_app,            \* the socket's application_state, "none" before get_ws
    ws_client,         \* the socket's client_state
    inbox,             \* events from the peer not yet received
    peerSent,          \* text frames the peer has sent
    peerGone,          \* the peer has disconnected
    wpc,               \* "idle", "recv_await" (line 44), "close_await" (line 47)
    naccept,           \* accept() calls made on the socket
    nclose,            \* close() calls made on the socket
    sent,              \* text frames the adapter has sent
    received,          \* messages iteration has returned
    wres               \* outcome of the last adapter operation

bodyVars == <<payload0, pos, eof, client_max_size, _read_bytes, pc, body,
              callStart, result, ncalls, nreadany, okReads, crbFirst, crbLast>>

ctxVars == <<ctx, scopes, exited, lastEntered>>

lazyVars == <<_scheme, _rel_url, _raw_headers, _query_string, _cache,
              _headers, _uid, runs, nacc, got, gotFirst, uidFirst, uidLast>>

raceVars == <<stack, rgot>>

ctorVars == <<max_size_arg>>

futVars == <<_futures, registry, registered, scheduled, nrun, reported,
             executed, clearedAt, fres>>

mapVars == <<_state, mlog, mres>>

wsVars == <<ws_app, ws_client, inbox, peerSent, peerGone, wpc, naccept,
            nclose, sent, received, wres>>

vars == <<lastOp, bodyVars, ctxVars, lazyVars, raceVars, ctorVars, futVars,
          mapVars, wsVars>>

\* What the operations of one part of the Request leave alone.
notBody == <<ctxVars, lazyVars, raceVars, ctorVars, futVars, mapVars, wsVars>>
notCtx == <<bodyVars, lazyVars, raceVars, ctorVars, futVars, mapVars, wsVars>>
notLazy == <<bodyVars, ctxVars, raceVars, ctorVars, futVars, mapVars, wsVars>>
notRace == <<bodyVars, ctxVars, ctorVars, futVars, mapVars, wsVars>>
notFut == <<bodyVars, ctxVars, lazyVars, raceVars, ctorVars, mapVars, wsVars>>
notMap == <<bodyVars, ctxVars, lazyVars, raceVars, ctorVars, futVars, wsVars>>
notWs == <<bodyVars, ctxVars, lazyVars, raceVars, ctorVars, futVars, mapVars>>

\* ------------------------------------------------------------ payload stream
\* self._payload.at_eof(): end-of-file was fed and nothing is left to return.
at_eof == eof /\ pos = Len(payload0)

\* readany() can complete: a chunk is there, or end-of-file was fed.
ReadAnyReady == pos < Len(payload0) \/ eof

\* What readany() returns when it completes: the next chunk, b"" at end-of-file.
ReadAnyChunk == IF pos < Len(payload0) THEN payload0[pos + 1] ELSE <<>>

ReadAnyPos == IF pos < Len(payload0) THEN pos + 1 ELSE pos

\* The transport feeds end-of-file (buffered chunks stay readable).
FeedEof ==
    /\ ~eof
    /\ eof' = TRUE
    /\ lastOp' = "feed_eof"
    /\ UNCHANGED notBody
    /\ UNCHANGED <<payload0, pos, client_max_size, _read_bytes, pc, body,
                   callStart, result, ncalls, nreadany, okReads,
                   crbFirst, crbLast>>

\* ------------------------------------------------------------------ outcomes
Outcome(op, kind, val) ==
    [op |-> op, kind |-> kind, val |-> val, max_size |-> 0, actual_size |-> 0]

NoOutcome == Outcome("none", "none", <<>>)

\* Line 322 evaluates the name HTTPRequestEntityTooLarge, which the module
\* never binds (no import in lines 1-21 provides it): the raise statement
\* ends in a NameError before any exception object is built.
RaiseEntityTooLarge(max_size, actual_size) ==
    [op |-> "read", kind |-> "NameError", val |-> <<>>,
     max_size |-> 0, actual_size |-> 0]

\* ---------------------------------------------------------------- read()
\* Variant: the cache test by truthiness (if not self._read_bytes), which
\* takes a cached empty body for no cache.
CacheIsFalsy(rb) == rb = None \/ rb[1] = <<>>

\* if self._read_bytes is None (line 314)
CacheIsUnset(rb) == rb = None

\* Variant: the limit compared with > instead of >=.
LimitExceeded(b) == client_max_size # 0 /\ ByteLen(b) > client_max_size

\* Variant: the size compared with the limit whatever the limit is.
LimitReachedAlways(b) == ByteLen(b) >= client_max_size

\* if self._client_max_size: ... if body_size >= self._client_max_size
\* (lines 319-321)
LimitReached(b) == client_max_size # 0 /\ ByteLen(b) >= client_max_size

\* read() up to its first suspension (lines 314-317), or the cached return.
ReadCall(t) ==
    /\ pc[t] = "idle"
    /\ ncalls < MaxCalls
    /\ ncalls' = ncalls + 1
    /\ lastOp' = "read"
    /\ callStart' = [callStart EXCEPT ![t] = pos]
    /\ IF CacheIsUnset(_read_bytes)
       THEN /\ body' = [body EXCEPT ![t] = <<>>]
            /\ pc' = [pc EXCEPT ![t] = "read_await"]
            /\ result' = [result EXCEPT ![t] = Outcome("read", "pending", <<>>)]
            /\ UNCHANGED okReads
       ELSE /\ result' = [result EXCEPT ![t] = Outcome("read", "ok", _read_bytes[1])]
            /\ okReads' = Append(okReads, [val |-> _read_bytes[1], n |-> nreadany])
            /\ UNCHANGED <<body, pc>>
    /\ UNCHANGED notBody
    /\ UNCHANGED <<payload0, pos, eof, client_max_size, _read_bytes, nreadany,
                   crbFirst, crbLast>>

\* Variant: the body cache written after every chunk instead of once after
\* the loop.
ReadResumeCachingEachChunk(t) ==
    /\ pc[t] = "read_await"
    /\ ReadAnyReady
    /\ LET chunk == ReadAnyChunk
           b     == body[t] \o chunk
       IN  /\ pos' = ReadAnyPos
           /\ nreadany' = nreadany + 1
           /\ lastOp' = "read"
           /\ _read_bytes' = Some(b)
           /\ IF LimitReached(b)
              THEN /\ result' = [result EXCEPT ![t] =
                                   RaiseEntityTooLarge(client_max_size, ByteLen(b))]
                   /\ pc' = [pc EXCEPT ![t] = "idle"]
                   /\ body' = [body EXCEPT ![t] = <<>>]
                   /\ UNCHANGED okReads
              ELSE IF chunk = <<>>
              THEN /\ result' = [result EXCEPT ![t] = Outcome("read", "ok", b)]
                   /\ okReads' = Append(okReads, [val |-> b, n |-> nreadany + 1])
                   /\ pc' = [pc EXCEPT ![t] = "idle"]
                   /\ body' = [body EXCEPT ![t] = <<>>]
              ELSE /\ body' = [body EXCEPT ![t] = b]
                   /\ UNCHANGED <<okReads, pc, result>>
    /\ UNCHANGED notBody
    /\ UNCHANGED <<payload0, eof, client_max_size, callStart, ncalls,
                   crbFirst, crbLast>>

\* readany() completes and read() runs on to its next suspension, its raise
\* or its return (lines 317-329).
ReadResume(t) ==
    /\ pc[t] = "read_await"
    /\ ReadAnyReady
    /\ LET chunk == ReadAnyChunk
           b     == body[t] \o chunk
       IN  /\ pos' = ReadAnyPos
           /\ nreadany' = nreadany + 1
           /\ lastOp' = "read"
           /\ IF LimitReached(b)
              THEN /\ result' = [result EXCEPT ![t] =
                                   RaiseEntityTooLarge(client_max_size, ByteLen(b))]
                   /\ pc' = [pc EXCEPT ![t] = "idle"]
                   /\ body' = [body EXCEPT ![t] = <<>>]
                   /\ UNCHANGED <<_read_bytes, okReads>>
              ELSE IF chunk = <<>>
              THEN /\ _read_bytes' = Some(b)
                   /\ result' = [result EXCEPT ![t] = Outcome("read", "ok", b)]
                   /\ okReads' = Append(okReads, [val |-> b, n |-> nreadany + 1])
                   /\ pc' = [pc EXCEPT ![t] = "idle"]
                   /\ body' = [body EXCEPT ![t] = <<>>]
              ELSE /\ body' = [body EXCEPT ![t] = b]
                   /\ UNCHANGED <<_read_bytes, okReads, pc, result>>
    /\ UNCHANGED notBody
    /\ UNCHANGED <<payload0, eof, client_max_size, callStart, ncalls,
                   crbFirst, crbLast>>

\* ---------------------------------------------------------------- release()
\* release() up to its first suspension (lines 306-307).
ReleaseCall(t) ==
    /\ pc[t] = "idle"
    /\ ncalls < MaxCalls
    /\ ncalls' = ncalls + 1
    /\ lastOp' = "release"
    /\ callStart' = [callStart EXCEPT ![t] = pos]
    /\ IF at_eof
       THEN /\ result' = [result EXCEPT ![t] = Outcome("release", "ok", <<>>)]
            /\ UNCHANGED pc
       ELSE /\ result' = [result EXCEPT ![t] = Outcome("release", "pending", <<>>)]
            /\ pc' = [pc EXCEPT ![t] = "rel_await"]
    /\ UNCHANGED notBody
    /\ UNCHANGED <<payload0, pos, eof, client_max_size, _read_bytes, body,
                   nreadany, okReads, crbFirst, crbLast>>

\* Variant: release() with `if` for `while`: one readany() and return.
ReleaseResumeOnce(t) ==
    /\ pc[t] = "rel_await"
    /\ ReadAnyReady
    /\ pos' = ReadAnyPos
    /\ nreadany' = nreadany + 1
    /\ lastOp' = "release"
    /\ result' = [result EXCEPT ![t] = Outcome("release", "ok", <<>>)]
    /\ pc' = [pc EXCEPT ![t] = "idle"]
    /\ UNCHANGED notBody
    /\ UNCHANGED <<payload0, eof, client_max_size, _read_bytes, body,
                   callStart, ncalls, okReads, crbFirst, crbLast>>

\* readany() completes inside release(); the chunk is dropped and the loop
\* condition is tested again (lines 306-307).
ReleaseResume(t) ==
    /\ pc[t] = "rel_await"
    /\ ReadAnyReady
    /\ pos' = ReadAnyPos
    /\ nreadany' = nreadany + 1
    /\ lastOp' = "release"
    /\ IF eof /\ ReadAnyPos = Len(payload0)
       THEN /\ result' = [result EXCEPT ![t] = Outcome("release", "ok", <<>>)]
            /\ pc' = [pc EXCEPT ![t] = "idle"]
       ELSE UNCHANGED <<result, pc>>
    /\ UNCHANGED notBody
    /\ UNCHANGED <<payload0, eof, client_max_size, _read_bytes, body,
                   callStart, ncalls, okReads, crbFirst, crbLast>>

\* The task is cancelled while suspended in readany(): CancelledError leaves
\* read()/release() through the await (lines 307, 317); locals are dropped.
Cancel(t) ==
    /\ pc[t] \in {"read_await", "rel_await"}
    /\ result' = [result EXCEPT ![t] =
                     Outcome(IF pc[t] = "read_await" THEN "read" ELSE "release",
                             "Cancelled", <<>>)]
    /\ pc' = [pc EXCEPT ![t] = "idle"]
    /\ body' = [body EXCEPT ![t] = <<>>]
    /\ lastOp' = "cancel"
    /\ UNCHANGED notBody
    /\ UNCHANGED <<payload0, pos, eof, client_max_size, _read_bytes,
                   callStart, ncalls, nreadany, okReads, crbFirst, crbLast>>

\* ------------------------------------------------------------ can_read_body
\* A plain property (lines 291-294): evaluated on every access.
CanReadBodyValue == ~at_eof

\* Variant: can_read_body behind reify, its first value kept.
CanReadBodyReified(t) ==
    /\ pc[t] = "idle"
    /\ crbLast' = IF crbFirst = None THEN Some(CanReadBodyValue) ELSE crbFirst
    /\ crbFirst' = IF crbFirst = None THEN Some(CanReadBodyValue) ELSE crbFirst
    /\ lastOp' = "can_read_body"
    /\ UNCHANGED notBody
    /\ UNCHANGED <<payload0, pos, eof, client_max_size, _read_bytes, pc, body,
                   callStart, result, ncalls, nreadany, okReads>>

CanReadBody(t) ==
    /\ pc[t] = "idle"
    /\ crbLast' = Some(CanReadBodyValue)
    /\ crbFirst' = IF crbFirst = None THEN Some(CanReadBodyValue) ELSE crbFirst
    /\ lastOp' = "can_read_body"
    /\ UNCHANGED notBody
    /\ UNCHANGED <<payload0, pos, eof, client_max_size, _read_bytes, pc, body,
                   callStart, result, ncalls, nreadany, okReads>>


\* ------------------------------------------------- current-request binding
\* task_vars.request.set(value) in task t: a context variable, whose value
\* each task holds for itself.
TaskVarSet(t, value) == [ctx EXCEPT ![t] = value]

\* Variant: the current request kept in one module-level variable that all
\* tasks share.
EnterSharedBinding(t, r) ==
    /\ Len(scopes[t]) < MaxDepth
    /\ ctx' = [u \in Tasks |-> r]
    /\ scopes' = [scopes EXCEPT ![t] = Append(@, [req |-> r, prev |-> ctx[t]])]
    /\ exited' = [exited EXCEPT ![t] = None]
    /\ lastEntered' = [lastEntered EXCEPT ![t] = r]
    /\ lastOp' = "enter"
    /\ UNCHANGED notCtx

\* __enter__ (lines 167-168) and __aenter__ (lines 175-176), which only
\* calls it: Request r becomes task t's current request.
Enter(t, r) ==
    /\ Len(scopes[t]) < MaxDepth
    /\ ctx' = TaskVarSet(t, r)
    /\ scopes' = [scopes EXCEPT ![t] = Append(@, [req |-> r, prev |-> ctx[t]])]
    /\ exited' = [exited EXCEPT ![t] = None]
    /\ lastEntered' = [lastEntered EXCEPT ![t] = r]
    /\ lastOp' = "enter"
    /\ UNCHANGED notCtx

\* How a scope is left.
ExitPaths == {"return", "error", "cancel"}

\* __exit__ (lines 170-173) and __aexit__ (lines 178-179), which only calls
\* it: the body is a docstring, so whatever the exit path nothing is written.
Exit(t, how) ==
    /\ scopes[t] # <<>>
    /\ LET top == scopes[t][Len(scopes[t])]
       IN  exited' = [exited EXCEPT ![t] =
                         Some([req |-> top.req, prev |-> top.prev, how |-> how])]
    /\ scopes' = [scopes EXCEPT ![t] = SubSeq(@, 1, Len(@) - 1)]
    /\ lastOp' = "exit"
    /\ UNCHANGED <<ctx, lastEntered>>
    /\ UNCHANGED notCtx


\* ------------------------------------------------------ connection inputs
\* A bytes object holding text x, and bytes.decode() of it.
B(x) == [b |-> x]
Decode(bs) == bs.b

\* str.lower() on the header names used here (CIMultiDict compares keys
\* without regard to case).
LowerName(k) ==
    CASE k \in {"Host", "host", "HOST"} -> "host"
      [] k \in {"X-FORWARDED-REQUEST-UID", "x-forwarded-request-uid",
                "X-Forwarded-Request-Uid"} -> "x-forwarded-request-uid"
      [] k \in {"Accept", "accept"} -> "accept"
      [] OTHER -> k

\* What the transport may hand over: a raw header list (pairs of bytes) and
\* a raw query string (bytes, as ASCII codes): "", "a=1", "a=1&a=2&b=3",
\* "A=1&a=2" and "a=&b".
Connections ==
    { << << <<B("Host"), B("h1")>> >>,
         <<>> >>,
      << << <<B("host"), B("h1")>>, <<B("X-FORWARDED-REQUEST-UID"), B("abc-123")>> >>,
         <<97, 61, 49>> >>,
      << << <<B("x-forwarded-request-uid"), B("abc-123")>>, <<B("HOST"), B("h2")>> >>,
         <<97, 61, 49, 38, 97, 61, 50, 38, 98, 61, 51>> >>,
      << << <<B("Host"), B("h1")>>, <<B("X-Forwarded-Request-Uid"), B("abc-123")>>,
            <<B("x-forwarded-request-uid"), B("zzz")>> >>,
         <<65, 61, 49, 38, 97, 61, 50>> >>,
      << << <<B("Accept"), B("x")>>, <<B("Host"), B("h2")>>, <<B("host"), B("h1")>> >>,
         <<97, 61, 38, 98>> >> }

\* bytes.decode("utf-8") on ASCII bytes: one character per byte.
Chr(c) ==
    CASE c = 97 -> "a" [] c = 98 -> "b" [] c = 65 -> "A"
      [] c = 49 -> "1" [] c = 50 -> "2" [] c = 51 -> "3"
      [] c = 61 -> "=" [] c = 38 -> "&"

DecodeUtf8(bs) == [i \in 1..Len(bs) |-> Chr(bs[i])]

\* str.split(sep): the pieces of s between occurrences of sep.
RECURSIVE SplitOn(_, _, _)
SplitOn(s, sep, cur) ==
    IF s = <<>> THEN <<cur>>
    ELSE IF Head(s) = sep THEN <<cur>> \o SplitOn(Tail(s), sep, <<>>)
    ELSE SplitOn(Tail(s), sep, Append(cur, Head(s)))

\* Position of the first "=" in a field, 0 when there is none.
FirstEq(f) ==
    IF \E i \in 1..Len(f) : f[i] = "="
    THEN CHOOSE i \in 1..Len(f) : f[i] = "=" /\ \A j \in 1..(i - 1) : f[j] # "="
    ELSE 0

\* urllib.parse.parse_qsl with its defaults: fields split on "&", each at its
\* first "="; a field without "=" or with an empty value is dropped.
RECURSIVE PairsOf(_)
PairsOf(fields) ==
    IF fields = <<>> THEN <<>>
    ELSE LET f == Head(fields)
             e == FirstEq(f)
         IN  IF e = 0 \/ e = Len(f)
             THEN PairsOf(Tail(fields))
             ELSE << <<SubSeq(f, 1, e - 1), SubSeq(f, e + 1, Len(f))>> >>
                  \o PairsOf(Tail(fields))

ParseQsl(qs) == PairsOf(SplitOn(qs, "&", <<>>))

\* --------------------------------------------------------------- multidict
\* multidict.CIMultiDict: the (key, value) pairs in insertion order; keys
\* are matched case-insensitively.
MatchingIdx(md, k) ==
    {i \in 1..Len(md) : LowerName(md[i][1]) = LowerName(k)}

\* key in md
CIContains(md, k) == MatchingIdx(md, k) # {}

\* md[key]: the first value stored under the key.
CIGetItem(md, k) ==
    md[CHOOSE i \in MatchingIdx(md, k) : \A j \in MatchingIdx(md, k) : i <= j][2]

\* md.get(key): None when the key is absent.
PyNone == "<None>"
CIGet(md, k) == IF CIContains(md, k) THEN CIGetItem(md, k) ELSE PyNone

\* ---------------------------------------------------- derived attributes
LazyAttrs == {"scheme", "host", "url", "query", "headers"}

\* Variant: headers declared with @property instead of @reify.
ReifiedExceptHeaders == {"scheme", "host", "url", "query"}

\* The attributes declared with @reify (lines 202, 222, 235, 248, 263):
\* reify looks the attribute's name up in self._cache, and on a miss runs the
\* function, stores its result there and returns it.
Reified == {"scheme", "host", "url", "query", "headers"}

\* The reified attributes an attribute's function reads: host reads
\* self.headers (line 232), url reads self.scheme and self.host (line 237).
Deps(name) ==
    CASE name = "host" -> <<"headers">>
      [] name = "url" -> <<"scheme", "host">>
      [] OTHER -> <<>>

\* Variant: headers filled into the multidict already kept in self._headers
\* when there is one.
HeadersContainerShared(existing) ==
    IF existing = None THEN <<>> ELSE existing[1]

\* headers = multidict.CIMultiDict() (line 266): a new, empty multidict.
HeadersContainer(existing) == <<>>

\* for key, value in self._raw_headers: headers.add(key.decode(),
\* value.decode()) (lines 268-269)
BuildHeaders(container, raw) ==
    container \o [i \in 1..Len(raw) |-> <<Decode(raw[i][1]), Decode(raw[i][2])>>]

\* URL.build(scheme=, host=) and URL.join(rel) (lines 237-238): the scheme
\* and host of the built URL with the path of the relative one. host is a
\* str here: every connection of this model carries a Host header.
UrlBuild(scheme, host) == [scheme |-> scheme, host |-> host, path |-> "/"]
UrlJoin(url, rel) == [url EXCEPT !.path = rel]

\* The function of each attribute, given the values of the attributes it
\* reads and the multidict currently in self._headers.
Eval(name, deps, hdrs) ==
    CASE name = "scheme" -> _scheme
      [] name = "headers" -> BuildHeaders(HeadersContainer(hdrs), _raw_headers)
      [] name = "host" -> CIGet(deps[1], "host")
      [] name = "url" -> UrlJoin(UrlBuild(deps[1], deps[2]), _rel_url)
      [] name = "query" -> ParseQsl(DecodeUtf8(_query_string))

\* One whole attribute access, as the owning task makes it (no suspension
\* point inside): st holds _cache, _headers and runs.
RECURSIVE Get(_, _), GetDeps(_, _, _)
Get(st, name) ==
    IF name \in Reified /\ st.cache[name] # None
    THEN [st |-> st, val |-> st.cache[name][1]]
    ELSE LET d   == GetDeps(st, Deps(name), <<>>)
             val == Eval(name, d.vals, d.st.hdrs)
             ran == [d.st EXCEPT !.runs[name] = @ + 1,
                                 !.hdrs = IF name = "headers" THEN Some(val) ELSE @]
         IN  [st  |-> IF name \in Reified
                      THEN [ran EXCEPT !.cache[name] = Some(val)]
                      ELSE ran,
              val |-> val]

GetDeps(st, names, vals) ==
    IF names = <<>> THEN [st |-> st, vals |-> vals]
    ELSE LET r == Get(st, Head(names))
         IN  GetDeps(r.st, Tail(names), Append(vals, r.val))

LazyState == [cache |-> _cache, runs |-> runs, hdrs |-> _headers]

Accesses == LazyAttrs \cup {"uid"}

RECURSIVE SumOver(_, _)
SumOver(f, S) ==
    IF S = {} THEN 0
    ELSE LET x == CHOOSE y \in S : TRUE IN f[x] + SumOver(f, S \ {x})

\* The owning task reads attribute a.
Access(a) ==
    /\ SumOver(nacc, Accesses) < MaxAccess
    /\ LET r == Get(LazyState, a)
       IN  /\ _cache' = r.st.cache
           /\ runs' = r.st.runs
           /\ _headers' = r.st.hdrs
           /\ got' = [got EXCEPT ![a] = Some(r.val)]
           /\ gotFirst' = [gotFirst EXCEPT ![a] = IF @ = None THEN Some(r.val) ELSE @]
    /\ nacc' = [nacc EXCEPT ![a] = @ + 1]
    /\ lastOp' = "attr"
    /\ UNCHANGED <<_scheme, _rel_url, _raw_headers, _query_string, _uid,
                   uidFirst, uidLast>>
    /\ UNCHANGED notLazy


\* --------------------------------------- attribute access, step by step
\* The same reify access as Get, cut where another unit can run in between:
\* the cache lookup, the function (its reads of other attributes are
\* accesses of their own), the store.
Frame(a) == [attr |-> a, stage |-> "check", deps |-> <<>>, val |-> None]

Top(u) == stack[u][Len(stack[u])]

SetTop(u, f) == [stack EXCEPT ![u] = [@ EXCEPT ![Len(@)] = f]]

\* The innermost access of unit u returns v: to the function that asked for
\* it, or to the unit itself.
Return(u, v) ==
    IF Len(stack[u]) > 1
    THEN /\ stack' = [stack EXCEPT ![u] =
                         LET below == SubSeq(@, 1, Len(@) - 1)
                             n     == Len(below)
                         IN  [below EXCEPT ![n].deps = Append(@, v)]]
         /\ UNCHANGED rgot
    ELSE /\ stack' = [stack EXCEPT ![u] = <<>>]
         /\ rgot' = [rgot EXCEPT ![u] = Append(@, [attr |-> Top(u).attr, val |-> v])]

\* Unit u starts reading attribute a.
RaceBegin(u, a) ==
    /\ stack[u] = <<>>
    /\ Len(rgot[u]) < MaxRaceReads
    /\ stack' = [stack EXCEPT ![u] = <<Frame(a)>>]
    /\ lastOp' = "attr"
    /\ UNCHANGED <<rgot, lazyVars>>
    /\ UNCHANGED notRace

\* return inst._cache[self.name], or KeyError
RaceCheck(u) ==
    /\ stack[u] # <<>>
    /\ Top(u).stage = "check"
    /\ IF Top(u).attr \in Reified /\ _cache[Top(u).attr] # None
       THEN Return(u, _cache[Top(u).attr][1])
       ELSE /\ stack' = SetTop(u, [Top(u) EXCEPT !.stage = "run"])
            /\ UNCHANGED rgot
    /\ lastOp' = "attr"
    /\ UNCHANGED lazyVars
    /\ UNCHANGED notRace

\* val = self.wrapped(inst): the next attribute the function reads, or its
\* result once it has them all.
RaceRun(u) ==
    /\ stack[u] # <<>>
    /\ Top(u).stage = "run"
    /\ LET f == Top(u)
           a == f.attr
       IN  IF Len(f.deps) < Len(Deps(a))
           THEN /\ stack' = [stack EXCEPT ![u] =
                                Append(@, Frame(Deps(a)[Len(f.deps) + 1]))]
                /\ UNCHANGED <<runs, _headers>>
           ELSE LET val == Eval(a, f.deps, _headers)
                IN  /\ runs' = [runs EXCEPT ![a] = @ + 1]
                    /\ _headers' = IF a = "headers" THEN Some(val) ELSE _headers
                    /\ stack' = SetTop(u, [f EXCEPT !.stage = "store",
                                                    !.val = Some(val)])
    /\ lastOp' = "attr"
    /\ UNCHANGED <<rgot, _scheme, _rel_url, _raw_headers, _query_string, _cache,
                   _uid, nacc, got, gotFirst, uidFirst, uidLast>>
    /\ UNCHANGED notRace

\* inst._cache[self.name] = val; return val
RaceStore(u) ==
    /\ stack[u] # <<>>
    /\ Top(u).stage = "store"
    /\ _cache' = IF Top(u).attr \in Reified
                 THEN [_cache EXCEPT ![Top(u).attr] = Top(u).val]
                 ELSE _cache
    /\ Return(u, Top(u).val[1])
    /\ lastOp' = "attr"
    /\ UNCHANGED <<_scheme, _rel_url, _raw_headers, _query_string, _headers,
                   _uid, runs, nacc, got, gotFirst, uidFirst, uidLast>>
    /\ UNCHANGED notRace

\* ---------------------------------------------------------------------- uid
\* uuid.uuid4().hex: some identifier not seen before.
Uuids == {"u1", "u2"}

\* Variant: uid assigned on every access.
UidAssignedAlways(u) == TRUE

\* if self._uid is None (line 160)
UidIsUnset(u) == u = None

\* The uid property (lines 158-165).
Uid ==
    /\ SumOver(nacc, Accesses) < MaxAccess
    /\ nacc' = [nacc EXCEPT !["uid"] = @ + 1]
    /\ lastOp' = "uid"
    /\ IF UidIsUnset(_uid)
       THEN LET r == Get(LazyState, "headers")
            IN  /\ _cache' = r.st.cache
                /\ runs' = r.st.runs
                /\ _headers' = r.st.hdrs
                /\ IF CIContains(r.val, "X-FORWARDED-REQUEST-UID")
                   THEN _uid' = Some(CIGetItem(r.val, "X-FORWARDED-REQUEST-UID"))
                   ELSE \E u \in Uuids : _uid' = Some(u)
       ELSE UNCHANGED <<_cache, runs, _headers, _uid>>
    /\ uidLast' = _uid'
    /\ uidFirst' = IF uidFirst = None THEN _uid' ELSE uidFirst
    /\ UNCHANGED <<_scheme, _rel_url, _raw_headers, _query_string, got, gotFirst>>
    /\ UNCHANGED notLazy

\* -------------------------------------------------------- deferred futures
\* Request.add_future, get_future and execute_futures hand their arguments
\* to guillotina.utils.execute (lines 127, 136, 153), which keeps the entries.
FutNames == {"a", "b"}

\* '' is the default scope (lines 129, 147).
FutScopes == {"", "x"}

FutOutcome(op, kind, name, scope, id) ==
    [op |-> op, kind |-> kind, name |-> name, scope |-> scope, id |-> id]

NoFutOutcome == FutOutcome("none", "none", "", "", 0)

\* self._futures: dict = {} (line 98), by its keys.
EmptyFutures == {}

\* The entries registered under a scope.
ScopeIds(reg, scope) == {reg[scope][i].id : i \in 1..Len(reg[scope])}

\* execute.add_future: the entry joins the entries of its scope, whatever
\* their names.
ExecuteAddFuture(reg, e, scope) == [reg EXCEPT ![scope] = Append(@, e)]

\* execute.get_future: the positions of the entries of that name and scope.
ExecuteGetFuture(reg, name, scope) ==
    {i \in 1..Len(reg[scope]) : reg[scope][i].name = name}

\* execute.execute_futures: every entry of the scope leaves the registry and
\* is scheduled on its own.
ExecuteExecuteFutures(reg, scope) == [reg EXCEPT ![scope] = <<>>]

\* Variant: one entry per name and scope, a later registration replacing
\* the earlier one.
AddFutureKeyedByName(name, scope, fails) ==
    /\ Len(registered) < MaxFutures
    /\ LET id   == Len(registered) + 1
           kept == SelectSeq(registry[scope], LAMBDA e : e.name # name)
       IN  /\ registered' = Append(registered,
                                   [name |-> name, scope |-> scope, fails |-> fails])
           /\ registry' = [registry EXCEPT ![scope] =
                              Append(kept, [id |-> id, name |-> name, fails |-> fails])]
           /\ fres' = FutOutcome("add_future", "ok", name, scope, id)
    /\ lastOp' = "add_future"
    /\ UNCHANGED <<_futures, scheduled, nrun, reported, executed, clearedAt>>
    /\ UNCHANGED notFut

\* add_future (lines 117-127): register a callable to run after the request;
\* fails tells whether the callable raises when it is run.
AddFuture(name, scope, fails) ==
    /\ Len(registered) < MaxFutures
    /\ LET id == Len(registered) + 1
       IN  /\ registered' = Append(registered,
                                   [name |-> name, scope |-> scope, fails |-> fails])
           /\ registry' = ExecuteAddFuture(registry,
                              [id |-> id, name |-> name, fails |-> fails], scope)
           /\ fres' = FutOutcome("add_future", "ok", name, scope, id)
    /\ lastOp' = "add_future"
    /\ UNCHANGED <<_futures, scheduled, nrun, reported, executed, clearedAt>>
    /\ UNCHANGED notFut

\* get_future (lines 129-136): an entry of that name and scope, or the
\* lookup's failure.
GetFuture(name, scope) ==
    /\ LET found == ExecuteGetFuture(registry, name, scope)
       IN  IF found = {}
           THEN fres' = FutOutcome("get_future", "NotFound", name, scope, 0)
           ELSE \E i \in found :
                   fres' = FutOutcome("get_future", "ok", name, scope,
                                      registry[scope][i].id)
    /\ lastOp' = "get_future"
    /\ UNCHANGED <<_futures, registry, registered, scheduled, nrun, reported,
                   executed, clearedAt>>
    /\ UNCHANGED notFut

\* Variant: the entries run one after the other inside the call, which
\* ends at the first failure and passes it on to its caller.
ExecuteFuturesInline(scope) ==
    /\ LET es      == registry[scope]
           failing == {i \in 1..Len(es) : es[i].fails}
           k       == IF failing = {} THEN Len(es)
                      ELSE CHOOSE i \in failing : \A j \in failing : i <= j
           first   == {es[i].id : i \in 1..k}
       IN  /\ nrun' = [id \in DOMAIN nrun |->
                          IF id \in first THEN nrun[id] + 1 ELSE nrun[id]]
           /\ fres' = FutOutcome("execute_futures",
                                 IF failing = {} THEN "ok" ELSE "error",
                                 "", scope, 0)
           /\ executed' = [executed EXCEPT ![scope] = @ \cup ScopeIds(registry, scope)]
    /\ registry' = ExecuteExecuteFutures(registry, scope)
    /\ lastOp' = "execute_futures"
    /\ UNCHANGED <<_futures, registered, scheduled, reported, clearedAt>>
    /\ UNCHANGED notFut

\* Variant: the scope argument ignored, the entries of every scope run.
ExecuteFuturesAllScopes(scope) ==
    /\ LET ids == UNION {ScopeIds(registry, s) : s \in FutScopes}
       IN  /\ scheduled' = scheduled \cup ids
           /\ executed' = [executed EXCEPT ![scope] = @ \cup ids]
    /\ registry' = [s \in FutScopes |-> <<>>]
    /\ fres' = FutOutcome("execute_futures", "ok", "", scope, 0)
    /\ lastOp' = "execute_futures"
    /\ UNCHANGED <<_futures, registered, nrun, reported, clearedAt>>
    /\ UNCHANGED notFut

\* execute_futures (lines 146-153): the entries of the scope are handed to
\* the loop; the call returns their task without waiting for them.
ExecuteFutures(scope) ==
    /\ LET ids == ScopeIds(registry, scope)
       IN  /\ scheduled' = scheduled \cup ids
           /\ executed' = [executed EXCEPT ![scope] = @ \cup ids]
    /\ registry' = ExecuteExecuteFutures(registry, scope)
    /\ fres' = FutOutcome("execute_futures", "ok", "", scope, 0)
    /\ lastOp' = "execute_futures"
    /\ UNCHANGED <<_futures, registered, nrun, reported, clearedAt>>
    /\ UNCHANGED notFut

\* A scheduled entry runs, in its own task: its callable returns or raises,
\* and a raise is logged there.
RunFuture(id) ==
    /\ id \in scheduled
    /\ scheduled' = scheduled \ {id}
    /\ nrun' = [nrun EXCEPT ![id] = @ + 1]
    /\ reported' = IF registered[id].fails THEN reported \cup {id} ELSE reported
    /\ lastOp' = "run_future"
    /\ UNCHANGED <<_futures, registry, registered, executed, clearedAt, fres>>
    /\ UNCHANGED notFut

\* Variant: clear_futures emptying the registry of execute as well.
ClearFuturesAndRegistry ==
    /\ _futures' = EmptyFutures
    /\ registry' = [s \in FutScopes |-> <<>>]
    /\ clearedAt' = UNION {ScopeIds(registry, s) : s \in FutScopes}
    /\ fres' = FutOutcome("clear_futures", "ok", "", "", 0)
    /\ lastOp' = "clear_futures"
    /\ UNCHANGED <<registered, scheduled, nrun, reported, executed>>
    /\ UNCHANGED notFut

\* clear_futures (lines 155-156): self._futures = {}.
ClearFutures ==
    /\ _futures' = EmptyFutures
    /\ clearedAt' = UNION {ScopeIds(registry, s) : s \in FutScopes}
    /\ fres' = FutOutcome("clear_futures", "ok", "", "", 0)
    /\ lastOp' = "clear_futures"
    /\ UNCHANGED <<registry, registered, scheduled, nrun, reported, executed>>
    /\ UNCHANGED notFut

\* --------------------------------------------------------- mapping interface
MapOutcome(op, kind, key, val) ==
    [op |-> op, kind |-> kind, key |-> key, val |-> val]

NoMapOutcome == MapOutcome("none", "none", "", 0)

\* self._state = {} (line 96): a dict, as a function on its keys.
EmptyState == [k \in {} |-> 0]

MapKeys == {"k1", "k2"}
MapVals == {1, 2}

\* d[k] = v
DictSet(d, k, v) == [x \in DOMAIN d \cup {k} |-> IF x = k THEN v ELSE d[x]]

\* del d[k], for a key of d
DictDel(d, k) == [x \in DOMAIN d \ {k} |-> d[x]]

\* __getitem__ (lines 187-188): self._state[key], KeyError for an absent key.
GetItem(k) ==
    /\ mres' = IF k \in DOMAIN _state
               THEN MapOutcome("getitem", "ok", k, _state[k])
               ELSE MapOutcome("getitem", "KeyError", k, 0)
    /\ lastOp' = "getitem"
    /\ UNCHANGED <<_state, mlog>>
    /\ UNCHANGED notMap

\* __setitem__ (lines 190-191): self._state[key] = value.
SetItem(k, v) ==
    /\ Len(mlog) < MaxMapOps
    /\ _state' = DictSet(_state, k, v)
    /\ mlog' = Append(mlog, [op |-> "set", key |-> k, val |-> v, kind |-> "ok"])
    /\ mres' = MapOutcome("setitem", "ok", k, v)
    /\ lastOp' = "setitem"
    /\ UNCHANGED notMap

\* Variant: the key removed with self._state.pop(key, None), which accepts
\* an absent key.
DelItemIgnoringAbsent(k) ==
    /\ Len(mlog) < MaxMapOps
    /\ _state' = DictDel(_state, k)
    /\ mlog' = Append(mlog, [op |-> "del", key |-> k, val |-> 0, kind |-> "ok"])
    /\ mres' = MapOutcome("delitem", "ok", k, 0)
    /\ lastOp' = "delitem"
    /\ UNCHANGED notMap

\* __delitem__ (lines 193-194): del self._state[key], KeyError for an absent
\* key.
DelItem(k) ==
    /\ Len(mlog) < MaxMapOps
    /\ IF k \in DOMAIN _state
       THEN /\ _state' = DictDel(_state, k)
            /\ mlog' = Append(mlog, [op |-> "del", key |-> k, val |-> 0, kind |-> "ok"])
            /\ mres' = MapOutcome("delitem", "ok", k, 0)
       ELSE /\ _state' = _state
            /\ mlog' = Append(mlog, [op |-> "del", key |-> k, val |-> 0,
                                     kind |-> "KeyError"])
            /\ mres' = MapOutcome("delitem", "KeyError", k, 0)
    /\ lastOp' = "delitem"
    /\ UNCHANGED notMap

\* __len__ (lines 196-197): len(self._state).
LenState ==
    /\ mres' = MapOutcome("len", "ok", "", Cardinality(DOMAIN _state))
    /\ lastOp' = "len"
    /\ UNCHANGED <<_state, mlog>>
    /\ UNCHANGED notMap

\* __iter__ (lines 199-200): iter(self._state), by the keys it yields.
IterState ==
    /\ mres' = MapOutcome("iter", "ok", "", DOMAIN _state)
    /\ lastOp' = "iter"
    /\ UNCHANGED <<_state, mlog>>
    /\ UNCHANGED notMap

\* --------------------------------------------------------- WebSocket adapter
WsOutcome(op, kind, val) == [op |-> op, kind |-> kind, val |-> val]

NoWsOutcome == WsOutcome("none", "none", "")

\* The text frames a peer sends.
WsTexts == {"hi", "yo"}

\* The closing of the connection by the peer, as it arrives on receive.
Disconnect == "websocket.disconnect"

\* get_ws (lines 104-107), GuillotinaWebSocket.__init__ (lines 25-28): the
\* adapter and its socket are built over scope, receive and send; nothing is
\* sent or received.
GetWs ==
    /\ ws_app = "none"
    /\ ws_app' = "CONNECTING"
    /\ ws_client' = "CONNECTING"
    /\ wres' = WsOutcome("get_ws", "ok", "")
    /\ lastOp' = "get_ws"
    /\ UNCHANGED <<inbox, peerSent, peerGone, wpc, naccept, nclose, sent, received>>
    /\ UNCHANGED notWs

\* prepare (lines 30-31): await self.ws.accept(), the handshake.
Prepare ==
    /\ ws_app = "CONNECTING"
    /\ ws_app' = "CONNECTED"
    /\ ws_client' = "CONNECTED"
    /\ naccept' = naccept + 1
    /\ wres' = WsOutcome("prepare", "ok", "")
    /\ lastOp' = "prepare"
    /\ UNCHANGED <<inbox, peerSent, peerGone, wpc, nclose, sent, received>>
    /\ UNCHANGED notWs

\* close (lines 33-34): await self.ws.close(), by the server's own choice.
Close ==
    /\ ws_app \in {"CONNECTING", "CONNECTED"}
    /\ wpc = "idle"
    /\ ws_app' = "DISCONNECTED"
    /\ nclose' = nclose + 1
    /\ wres' = WsOutcome("close", "ok", "")
    /\ lastOp' = "close"
    /\ UNCHANGED <<ws_client, inbox, peerSent, peerGone, wpc, naccept, sent, received>>
    /\ UNCHANGED notWs

\* send_str (lines 36-37): await self.ws.send_text(data).
SendStr ==
    /\ ws_app = "CONNECTED"
    /\ ws_client = "CONNECTED"
    /\ sent < MaxMsgs
    /\ sent' = sent + 1
    /\ wres' = WsOutcome("send_str", "ok", "")
    /\ lastOp' = "send_str"
    /\ UNCHANGED <<ws_app, ws_client, inbox, peerSent, peerGone, wpc, naccept,
                   nclose, received>>
    /\ UNCHANGED notWs

\* The peer sends a text frame.
PeerSend(m) ==
    /\ ws_client = "CONNECTED"
    /\ ~peerGone
    /\ peerSent < MaxMsgs
    /\ peerSent' = peerSent + 1
    /\ inbox' = Append(inbox, m)
    /\ lastOp' = "peer_send"
    /\ UNCHANGED <<ws_app, ws_client, peerGone, wpc, naccept, nclose, sent,
                   received, wres>>
    /\ UNCHANGED notWs

\* The peer closes the connection.
PeerDisconnect ==
    /\ ws_client = "CONNECTED"
    /\ ~peerGone
    /\ peerGone' = TRUE
    /\ inbox' = Append(inbox, Disconnect)
    /\ lastOp' = "peer_disconnect"
    /\ UNCHANGED <<ws_app, ws_client, peerSent, wpc, naccept, nclose, sent,
                   received, wres>>
    /\ UNCHANGED notWs

\* __anext__ up to its suspension in receive_text() (lines 42-44).
NextCall ==
    /\ ws_app = "CONNECTED"
    /\ ws_client = "CONNECTED"
    /\ wpc = "idle"
    /\ wpc' = "recv_await"
    /\ wres' = WsOutcome("anext", "pending", "")
    /\ lastOp' = "anext"
    /\ UNCHANGED <<ws_app, ws_client, inbox, peerSent, peerGone, naccept, nclose,
                   sent, received>>
    /\ UNCHANGED notWs

\* Variant: __anext__ without its try/except: WebSocketDisconnect reaches
\* the caller and the adapter closes nothing.
NextResumePropagating ==
    /\ wpc = "recv_await"
    /\ inbox # <<>>
    /\ inbox' = Tail(inbox)
    /\ wpc' = "idle"
    /\ IF Head(inbox) = Disconnect
       THEN /\ ws_client' = "DISCONNECTED"
            /\ wres' = WsOutcome("anext", "WebSocketDisconnect", "")
            /\ UNCHANGED received
       ELSE /\ received' = Append(received, Head(inbox))
            /\ wres' = WsOutcome("anext", "ok", Head(inbox))
            /\ UNCHANGED ws_client
    /\ lastOp' = "anext"
    /\ UNCHANGED <<ws_app, peerSent, peerGone, naccept, nclose, sent>>
    /\ UNCHANGED notWs

\* receive_text() completes (lines 43-49): a text is returned as a WSMessage;
\* on WebSocketDisconnect the adapter calls its close() and is suspended in
\* it (line 47).
NextResume ==
    /\ wpc = "recv_await"
    /\ inbox # <<>>
    /\ inbox' = Tail(inbox)
    /\ IF Head(inbox) = Disconnect
       THEN /\ ws_client' = "DISCONNECTED"
            /\ ws_app' = "DISCONNECTED"
            /\ nclose' = nclose + 1
            /\ wpc' = "close_await"
            /\ UNCHANGED <<received, wres>>
       ELSE /\ received' = Append(received, Head(inbox))
            /\ wres' = WsOutcome("anext", "ok", Head(inbox))
            /\ wpc' = "idle"
            /\ UNCHANGED <<ws_client, ws_app, nclose>>
    /\ lastOp' = "anext"
    /\ UNCHANGED <<peerSent, peerGone, naccept, sent>>
    /\ UNCHANGED notWs

\* close() returns inside __anext__, which raises StopAsyncIteration
\* (lines 47-48).
NextCloseResume ==
    /\ wpc = "close_await"
    /\ wpc' = "idle"
    /\ wres' = WsOutcome("anext", "StopAsyncIteration", "")
    /\ lastOp' = "anext"
    /\ UNCHANGED <<ws_app, ws_client, inbox, peerSent, peerGone, naccept, nclose,
                   sent, received>>
    /\ UNCHANGED notWs

\* ------------------------------------------------------------ specification
\* The Request and its payload stream after construction (lines 74-102).
\* client_max_size arguments: the numbers of S given, or the argument left out.
Given(S) == {Some(n) : n \in S}
LeftOut == {None}

BodyStart(payloads, limits) ==
    /\ payload0 \in payloads
    /\ pos = 0
    /\ eof = FALSE
    /\ max_size_arg \in limits
    /\ client_max_size = IF max_size_arg = None THEN DefaultClientMaxSize
                         ELSE max_size_arg[1]
    /\ _read_bytes = None
    /\ pc = [t \in Tasks |-> "idle"]
    /\ body = [t \in Tasks |-> <<>>]
    /\ callStart = [t \in Tasks |-> 0]
    /\ result = [t \in Tasks |-> NoOutcome]
    /\ ncalls = 0
    /\ nreadany = 0
    /\ okReads = <<>>
    /\ crbFirst = None
    /\ crbLast = None

\* No task has entered a request scope; a task's binding is unset, or what
\* its context held when the task was created.
CtxStart(bindings) ==
    /\ ctx \in [Tasks -> bindings]
    /\ scopes = [t \in Tasks |-> <<>>]
    /\ exited = [t \in Tasks |-> None]
    /\ lastEntered = [t \in Tasks |-> NoRequest]

\* The connection data kept by __init__; nothing derived yet.
LazyStart(connections) ==
    /\ _scheme = "http"
    /\ _rel_url = "/p"
    /\ \E c \in connections :
          /\ _raw_headers = c[1]
          /\ _query_string = c[2]
    /\ _cache = [a \in LazyAttrs |-> None]
    /\ _headers = None
    /\ _uid = None
    /\ runs = [a \in LazyAttrs |-> 0]
    /\ nacc = [a \in Accesses |-> 0]
    /\ got = [a \in LazyAttrs |-> None]
    /\ gotFirst = [a \in LazyAttrs |-> None]
    /\ uidFirst = None
    /\ uidLast = None

\* No unit is inside an attribute access.
RaceStart ==
    /\ stack = [u \in Tasks |-> <<>>]
    /\ rgot = [u \in Tasks |-> <<>>]

\* Nothing registered with execute, nothing scheduled.
FutStart ==
    /\ _futures = EmptyFutures
    /\ registry = [s \in FutScopes |-> <<>>]
    /\ registered = <<>>
    /\ scheduled = {}
    /\ nrun = [id \in 1..MaxFutures |-> 0]
    /\ reported = {}
    /\ executed = [s \in FutScopes |-> {}]
    /\ clearedAt = {}
    /\ fres = NoFutOutcome

MapStart ==
    /\ _state = EmptyState
    /\ mlog = <<>>
    /\ mres = NoMapOutcome

\* get_ws() has not been called; the peer has sent nothing.
WsStart ==
    /\ ws_app = "none"
    /\ ws_client = "none"
    /\ inbox = <<>>
    /\ peerSent = 0
    /\ peerGone = FALSE
    /\ wpc = "idle"
    /\ naccept = 0
    /\ nclose = 0
    /\ sent = 0
    /\ received = <<>>
    /\ wres = NoWsOutcome

\* The parts of the Request a specification does not exercise.
RestStart == FutStart /\ MapStart /\ WsStart

PlainConnection == { << << <<B("Host"), B("h1")>> >>, <<>> >> }

InitBody ==
    /\ lastOp = "init"
    /\ BodyStart(Payloads, Given(0..MaxLimit))
    /\ CtxStart({NoRequest})
    /\ LazyStart(PlainConnection)
    /\ RaceStart
    /\ RestStart

\* One owning task drives the Request (spec section 5).
NextBody ==
    \/ FeedEof
    \/ ReadCall("t1")
    \/ ReadResume("t1")
    \/ ReleaseCall("t1")
    \/ ReleaseResume("t1")
    \/ Cancel("t1")
    \/ CanReadBody("t1")

SpecBody == InitBody /\ [][NextBody]_vars

\* read() and release() on Requests built with client_max_size 0 and with
\* the argument left out, over streams that reach 1024**2 bytes.
InitLimit ==
    /\ lastOp = "init"
    /\ BodyStart(BigPayloads, Given({0}) \cup LeftOut)
    /\ CtxStart({NoRequest})
    /\ LazyStart(PlainConnection)
    /\ RaceStart
    /\ RestStart

SpecLimit == InitLimit /\ [][NextBody]_vars

\* One adapter obtained from get_ws(), used in the order of its interface,
\* and its peer.
InitWS ==
    /\ lastOp = "init"
    /\ BodyStart({<<>>}, Given({0}))
    /\ CtxStart({NoRequest})
    /\ LazyStart(PlainConnection)
    /\ RaceStart
    /\ FutStart
    /\ MapStart
    /\ WsStart

NextWS ==
    \/ GetWs
    \/ Prepare
    \/ Close
    \/ SendStr
    \/ \E m \in WsTexts : PeerSend(m)
    \/ PeerDisconnect
    \/ NextCall
    \/ NextResume
    \/ NextCloseResume

SpecWS == InitWS /\ [][NextWS]_vars

\* Two tasks calling read() on one Request, their steps interleaved at the
\* await of readany() (line 317).
InitBody2 ==
    /\ lastOp = "init"
    /\ BodyStart(Payloads, Given({0}))
    /\ CtxStart({NoRequest})
    /\ LazyStart(PlainConnection)
    /\ RaceStart
    /\ RestStart

NextBody2 ==
    \/ FeedEof
    \/ \E t \in Tasks : ReadCall(t)
    \/ \E t \in Tasks : ReadResume(t)

SpecBody2 == InitBody2 /\ [][NextBody2]_vars

\* SpecBody under a scheduler: the transport feeds end-of-file in the end,
\* and the loop resumes release() once its readany() can complete.
SpecRelease ==
    /\ InitBody
    /\ [][NextBody]_vars
    /\ WF_vars(FeedEof)
    /\ WF_vars(ReleaseResume("t1"))

\* Two tasks entering and leaving request scopes in any interleaving.
InitCtx ==
    /\ lastOp = "init"
    /\ BodyStart({<<>>}, Given({0}))
    /\ CtxStart(Requests \cup {NoRequest})
    /\ LazyStart(PlainConnection)
    /\ RaceStart
    /\ RestStart

NextCtx ==
    \/ \E t \in Tasks, r \in Requests : Enter(t, r)
    \/ \E t \in Tasks, how \in ExitPaths : Exit(t, how)

SpecCtx == InitCtx /\ [][NextCtx]_vars

\* The owning task reading attributes and uid, between the steps of its
\* body operations.
InitLazy ==
    /\ lastOp = "init"
    /\ BodyStart({<< <<1>> >>}, Given({0}))
    /\ CtxStart({NoRequest})
    /\ LazyStart(Connections)
    /\ RaceStart
    /\ RestStart

NextLazy ==
    \/ \E a \in LazyAttrs : Access(a)
    \/ Uid
    \/ FeedEof
    \/ ReadCall("t1")
    \/ ReadResume("t1")
    \/ ReleaseCall("t1")
    \/ ReleaseResume("t1")

SpecLazy == InitLazy /\ [][NextLazy]_vars

\* Two units reading attributes of one Request, their accesses interleaved
\* between lookup, function and store.
RaceConnections ==
    { << << <<B("host"), B("h1")>>, <<B("X-FORWARDED-REQUEST-UID"), B("abc-123")>> >>,
         <<97, 61, 49>> >> }

RaceAttrs == {"headers", "host", "url"}

InitRace ==
    /\ lastOp = "init"
    /\ BodyStart({<<>>}, Given({0}))
    /\ CtxStart({NoRequest})
    /\ LazyStart(RaceConnections)
    /\ RaceStart
    /\ RestStart

NextRace ==
    \/ \E u \in Tasks, a \in RaceAttrs : RaceBegin(u, a)
    \/ \E u \in Tasks : RaceCheck(u)
    \/ \E u \in Tasks : RaceRun(u)
    \/ \E u \in Tasks : RaceStore(u)

SpecRace == InitRace /\ [][NextRace]_vars

\* Futures registered, looked up, executed and cleared in any order, the
\* scheduled entries running whenever the loop gets to them.
InitFutures ==
    /\ lastOp = "init"
    /\ BodyStart({<<>>}, Given({0}))
    /\ CtxStart({NoRequest})
    /\ LazyStart(PlainConnection)
    /\ RaceStart
    /\ FutStart
    /\ MapStart
    /\ WsStart

NextFutures ==
    \/ \E name \in FutNames, scope \in FutScopes, fails \in BOOLEAN :
          AddFuture(name, scope, fails)
    \/ \E name \in FutNames, scope \in FutScopes : GetFuture(name, scope)
    \/ \E scope \in FutScopes : ExecuteFutures(scope)
    \/ \E id \in scheduled : RunFuture(id)
    \/ ClearFutures

SpecFutures == InitFutures /\ [][NextFutures]_vars

\* The mapping operations in any order.
InitMap ==
    /\ lastOp = "init"
    /\ BodyStart({<<>>}, Given({0}))
    /\ CtxStart({NoRequest})
    /\ LazyStart(PlainConnection)
    /\ RaceStart
    /\ FutStart
    /\ MapStart
    /\ WsStart

NextMap ==
    \/ \E k \in MapKeys : GetItem(k)
    \/ \E k \in MapKeys, v \in MapVals : SetItem(k, v)
    \/ \E k \in MapKeys : DelItem(k)
    \/ LenState
    \/ IterState

SpecMap == InitMap /\ [][NextMap]_vars

\* ============================================================ body claims
\* Number of bytes in a sequence of chunks.
Size(cs) == ByteLen(Concat(cs))

\* The chunks the stream still had to deliver when task t's call began.
RestAtCall(t) == SubSeq(payload0, callStart[t] + 1, Len(payload0))

\* The chunks the stream delivered between the start of t's call and now.
ConsumedByCall(t) == SubSeq(payload0, callStart[t] + 1, pos)

\* Task t's read() has just ended after draining the stream itself (not a
\* cached return): by its raise, or as the first read() to return.
ReadJustEnded(t) ==
    /\ lastOp = "read"
    /\ pc[t] = "idle"
    /\ result[t].op = "read"
    /\ \/ result[t].kind \notin {"ok", "pending", "none"}
       \/ result[t].kind = "ok" /\ Len(okReads) = 1

\* The first k at which the first k chunks of cs hold at least n bytes.
Crossings(cs, n) == {k \in 1..Len(cs) : Size(SubSeq(cs, 1, k)) >= n}
FirstCrossing(cs, n) ==
    CHOOSE k \in Crossings(cs, n) : \A j \in Crossings(cs, n) : k <= j

\* C1: with a limit L > 0, read() fails with PayloadTooLarge(max_size = L,
\* actual_size = bytes accumulated) as soon as the accumulated size is >= L
\* after some chunk, and otherwise returns the concatenation of all chunks in
\* delivery order.
C1_ReadContract ==
    \A t \in Tasks :
        (ReadJustEnded(t) /\ client_max_size > 0) =>
            LET rest == RestAtCall(t)
            IN  IF Crossings(rest, client_max_size) # {}
                THEN LET k == FirstCrossing(rest, client_max_size)
                     IN  /\ result[t].kind = "PayloadTooLarge"
                         /\ result[t].max_size = client_max_size
                         /\ result[t].actual_size = Size(SubSeq(rest, 1, k))
                         /\ pos = callStart[t] + k
                ELSE /\ result[t].kind = "ok"
                     /\ result[t].val = Concat(rest)

\* What read() does keep of C1: it ends with an error right after the first
\* chunk at which the size reaches L, and otherwise returns the concatenation.
ReadContractUpToErrorType ==
    \A t \in Tasks :
        (ReadJustEnded(t) /\ client_max_size > 0) =>
            LET rest == RestAtCall(t)
            IN  IF Crossings(rest, client_max_size) # {}
                THEN /\ result[t].kind = "NameError"
                     /\ pos = callStart[t] + FirstCrossing(rest, client_max_size)
                ELSE /\ result[t].kind = "ok"
                     /\ result[t].val = Concat(rest)

\* C2: once a read() has returned, every later read() returns the same bytes
\* and completes no readany() call on the payload stream.
C2_ReadIdempotent ==
    \A i \in 1..Len(okReads) :
        /\ okReads[i].val = okReads[1].val
        /\ okReads[i].n = okReads[1].n

\* Two read() calls have returned a non-empty body.
C2_Witness ==
    /\ Len(okReads) >= 2
    /\ okReads[1].val # <<>>
    /\ lastOp = "read"

\* C3: when read() fails at the size check it fails right after the chunk
\* that made the accumulated size reach the limit (the size was below the
\* limit before that chunk, and no later chunk has been consumed), and
\* _read_bytes is left unset.
C3_AbortAtOffendingChunk ==
    \A t \in Tasks :
        (ReadJustEnded(t) /\ result[t].kind = "NameError") =>
            LET cs == ConsumedByCall(t)
            IN  /\ cs # <<>>
                /\ Size(cs) >= client_max_size
                /\ Size(SubSeq(cs, 1, Len(cs) - 1)) < client_max_size
                /\ _read_bytes = None

\* read() has failed at the size check with chunks still undelivered.
C3_Witness ==
    /\ ReadJustEnded("t1")
    /\ result["t1"].kind = "NameError"
    /\ pos < Len(payload0)
    /\ pos >= 1

\* C4: a call cancelled while suspended in readany() ends with Cancelled,
\* keeps nothing of the partially accumulated body and leaves _read_bytes
\* unset, however many chunks it had consumed.
C4_CancelCachesNothing ==
    \A t \in Tasks :
        result[t].kind = "Cancelled" =>
            /\ _read_bytes = None
            /\ body[t] = <<>>
            /\ pc[t] = "idle"

\* read() was cancelled after it had consumed two chunks.
C4_Witness ==
    /\ lastOp = "cancel"
    /\ result["t1"].op = "read"
    /\ result["t1"].kind = "Cancelled"
    /\ pos - callStart["t1"] >= 2

\* release() was cancelled after it had consumed a chunk.
ReleaseCancelledReached ==
    /\ lastOp = "cancel"
    /\ result["t1"].op = "release"
    /\ pos - callStart["t1"] >= 1

\* C8 as stated: once can_read_body has been read, every later access returns
\* that same value.
C8_CachedOnFirstAccess ==
    crbFirst # None => crbLast = crbFirst

\* C8 amended: every access of can_read_body evaluates the stream anew and
\* returns TRUE exactly when the stream is not at end-of-file at that moment.
C8_ReflectsStreamOnEachAccess ==
    lastOp = "can_read_body" => crbLast = Some(~(eof /\ pos = Len(payload0)))

\* can_read_body returned TRUE first and FALSE after the stream was drained.
C8_Witness ==
    /\ lastOp = "can_read_body"
    /\ crbFirst = Some(TRUE)
    /\ crbLast = Some(FALSE)
    /\ _read_bytes # None

\* ================================================= current-request claims
\* C5: when a request scope exits - by return, error or cancellation - the
\* task's current request is again the binding that held when that scope was
\* entered: the outer Request for a nested scope, the earlier binding for the
\* outermost one.
C5_RestoredOnExit ==
    \A t \in Tasks :
        exited[t] # None => ctx[t] = exited[t][1].prev

\* What the code does instead: leaving a scope changes no binding.
ExitKeepsBinding ==
    [][\A t \in Tasks : (exited[t] = None /\ exited'[t] # None) => ctx' = ctx]_vars

\* Task t1 has left Request B's scope, entered inside Request A's scope.
NestedExitReached ==
    /\ exited["t1"] # None
    /\ exited["t1"][1].req = "B"
    /\ exited["t1"][1].prev = "A"
    /\ Len(scopes["t1"]) = 1
    /\ scopes["t1"][1].req = "A"

\* C6: in every interleaving of the tasks, the current request a task
\* observes once it has entered a scope is the Request that task itself
\* entered last, never one entered by the other task.
C6_BindingIsPerTask ==
    \A t \in Tasks :
        lastEntered[t] # NoRequest => ctx[t] = lastEntered[t]

\* Both tasks are inside scopes of different Requests, t2 nested.
C6_Witness ==
    /\ scopes["t1"] # <<>> /\ scopes["t2"] # <<>>
    /\ exited["t1"] = None /\ exited["t2"] = None
    /\ scopes["t1"][Len(scopes["t1"])].req = "A"
    /\ scopes["t2"][Len(scopes["t2"])].req = "B"
    /\ Len(scopes["t2"]) = 2
    /\ lastEntered["t1"] = "A" /\ lastEntered["t2"] = "B"
    /\ ctx["t1"] = "A" /\ ctx["t2"] = "B"
    /\ lastOp = "enter"

ForwardedUids ==
    {i \in 1..Len(_raw_headers) :
        Decode(_raw_headers[i][1]) \in {"X-FORWARDED-REQUEST-UID",
                                        "x-forwarded-request-uid",
                                        "X-Forwarded-Request-Uid"}}

\* C10: the first uid access fixes the value - the X-FORWARDED-REQUEST-UID
\* header's (matched case-insensitively) when there is one, a generated
\* identifier otherwise - and every later access returns that same value.
C10_UidStable ==
    uidLast # None =>
        /\ uidLast = uidFirst
        /\ _uid = uidFirst
        /\ IF ForwardedUids # {}
           THEN \E i \in ForwardedUids :
                   /\ \A j \in ForwardedUids : i <= j
                   /\ uidFirst = Some(Decode(_raw_headers[i][2]))
           ELSE uidFirst[1] \in Uuids

\* uid was read twice, around a read() of the body, on a request whose
\* forwarded-uid header is written in lower case.
C10_Witness ==
    /\ nacc["uid"] >= 2
    /\ Decode(_raw_headers[1][1]) = "x-forwarded-request-uid"
    /\ uidLast = Some("abc-123")
    /\ _read_bytes # None

\* uid was read twice on a request without the header.
GeneratedUidReached ==
    /\ nacc["uid"] >= 2
    /\ ForwardedUids = {}
    /\ uidLast = Some("u2")

RedundantUrlReached ==
    /\ runs["url"] = 2
    /\ Len(rgot["t1"]) >= 1 /\ rgot["t1"][1].attr = "url"
    /\ Len(rgot["t2"]) >= 1 /\ rgot["t2"][1].attr = "url"

\* ========================================================== futures claims
\* The add_future calls made so far, by their order.
Registered == 1..Len(registered)

\* The entry is held by the registry, under the scope it was registered in.
InRegistry(id) == id \in ScopeIds(registry, registered[id].scope)

\* The entry is where a registered entry can be: still registered, handed to
\* the loop, or run once.
Kept(id) ==
    /\ nrun[id] <= 1
    /\ InRegistry(id) \/ id \in scheduled \/ nrun[id] = 1

\* C11: add_future never fails, a new entry joins the entries of its scope
\* without displacing one of the same name, and after execute_futures(scope)
\* every entry registered under that scope is scheduled or has run.
C11_CollisionKeepsBoth ==
    /\ fres.op = "add_future" => fres.kind = "ok"
    /\ lastOp = "add_future" => InRegistry(fres.id)
    /\ \A id \in Registered : Kept(id)
    /\ lastOp = "execute_futures" =>
          \A id \in Registered :
              registered[id].scope = fres.scope =>
                  id \in scheduled \/ nrun[id] = 1

\* Two entries named "a" were registered in scope "x", and both have run.
C11_Witness ==
    /\ Len(registered) = 2
    /\ registered[1].name = "a" /\ registered[2].name = "a"
    /\ registered[1].scope = "x" /\ registered[2].scope = "x"
    /\ nrun[1] = 1 /\ nrun[2] = 1
    /\ lastOp = "run_future"

\* C12: execute_futures never ends with an entry's failure; an entry taken
\* by execute_futures stays scheduled until it has run, whatever happens to
\* the other entries of its scope; and a failure is reported where the entry
\* ran.
C12_FailureIsolated ==
    /\ fres.kind # "error"
    /\ fres.op = "execute_futures" => fres.kind = "ok"
    /\ \A s \in FutScopes :
          \A id \in executed[s] : id \in scheduled \/ nrun[id] = 1
    /\ \A id \in Registered :
          (nrun[id] > 0 /\ registered[id].fails) => id \in reported
    /\ \A id \in reported : registered[id].fails

\* A failing entry and a sibling of scope "x" have both run; only the
\* failure is reported, and execute_futures had returned.
C12_Witness ==
    /\ Len(registered) = 2
    /\ registered[1].scope = "x" /\ registered[2].scope = "x"
    /\ registered[1].fails /\ ~registered[2].fails
    /\ executed["x"] = {1, 2}
    /\ nrun[1] = 1 /\ nrun[2] = 1
    /\ reported = {1}
    /\ fres.op = "execute_futures" /\ fres.kind = "ok"

\* C13: an entry leaves the registry, is scheduled and runs only through an
\* execute_futures call for the scope it was registered under; calls for
\* other scopes leave it registered.
C13_ScopeIsolated ==
    \A id \in Registered :
        LET s == registered[id].scope
        IN  /\ (~InRegistry(id) \/ id \in scheduled \/ nrun[id] > 0) =>
                  id \in executed[s]
            /\ \A o \in FutScopes \ {s} : id \notin executed[o]

\* execute_futures("x") has run the entry of scope "x" while the entry of
\* the default scope is still registered and has not run.
C13_Witness ==
    /\ Len(registered) = 2
    /\ registered[1].scope = "x" /\ registered[2].scope = ""
    /\ executed["x"] = {1} /\ executed[""] = {}
    /\ nrun[1] = 1 /\ nrun[2] = 0
    /\ InRegistry(2)
    /\ scheduled = {}

\* The entry left registered by execute_futures("x") has run after
\* execute_futures("").
OtherScopeRunsLater ==
    /\ Len(registered) = 2
    /\ registered[1].scope = "x" /\ registered[2].scope = ""
    /\ nrun[1] = 1 /\ nrun[2] = 1
    /\ lastOp = "run_future"

\* C14: clear_futures() leaves _futures empty and takes no entry out of the
\* registry: an entry registered when it was called is still registered (and
\* found by get_future) until an execute_futures of its scope takes it.
C14_ClearKeepsRegistry ==
    /\ lastOp = "clear_futures" => _futures = EmptyFutures
    /\ \A id \in clearedAt : Kept(id)
    /\ lastOp = "get_future" =>
          (fres.kind = "NotFound" <=>
              ~ \E id \in Registered :
                    /\ InRegistry(id)
                    /\ registered[id].name = fres.name
                    /\ registered[id].scope = fres.scope)

\* An entry registered before clear_futures() has run after it.
C14_Witness ==
    /\ 1 \in clearedAt
    /\ nrun[1] = 1
    /\ lastOp = "run_future"

\* get_future has returned an entry registered before clear_futures().
FoundAfterClearReached ==
    /\ lastOp = "get_future"
    /\ fres.kind = "ok"
    /\ fres.id \in clearedAt

\* ========================================================== mapping claims
\* What the calls of log leave for key k: the value of its last set when no
\* delete of k follows it, None otherwise.
LastValue(log, k) ==
    LET idx == {i \in 1..Len(log) : log[i].key = k}
    IN  IF idx = {} THEN None
        ELSE LET i == CHOOSE j \in idx : \A l \in idx : l <= j
             IN  IF log[i].op = "set" THEN Some(log[i].val) ELSE None

KeysSet(log) == {k \in MapKeys : LastValue(log, k) # None}

\* C15: after any sequence of sets and deletes, _state holds for each key
\* the value of its last set not followed by a delete; get returns that
\* value (KeyError when there is none), len the number of keys set; and a
\* delete fails with KeyError exactly when the key was absent, leaving
\* _state as it was.
C15_MapOverState ==
    /\ DOMAIN _state = KeysSet(mlog)
    /\ \A k \in KeysSet(mlog) : Some(_state[k]) = LastValue(mlog, k)
    /\ lastOp = "getitem" =>
          IF mres.key \in KeysSet(mlog)
          THEN mres.kind = "ok" /\ Some(mres.val) = LastValue(mlog, mres.key)
          ELSE mres.kind = "KeyError"
    /\ lastOp = "len" => mres.val = Cardinality(KeysSet(mlog))
    /\ lastOp = "iter" => mres.val = KeysSet(mlog)
    /\ \A i \in 1..Len(mlog) :
          mlog[i].op = "del" =>
              (mlog[i].kind = "KeyError" <=>
                  mlog[i].key \notin KeysSet(SubSeq(mlog, 1, i - 1)))

\* k1 was set, deleted, and deleted again, the second delete failing while
\* k2 stays set.
C15_Witness ==
    /\ Len(mlog) = 3
    /\ mlog[1].op = "set" /\ mlog[1].key = "k1"
    /\ mlog[2].op = "del" /\ mlog[2].key = "k1" /\ mlog[2].kind = "ok"
    /\ mlog[3].op = "del" /\ mlog[3].key = "k1" /\ mlog[3].kind = "KeyError"
    /\ lastOp = "delitem"
    /\ mres.kind = "KeyError"

\* get has returned the second of two values set for one key.
OverwrittenValueReached ==
    /\ Len(mlog) >= 2
    /\ mlog[1].op = "set" /\ mlog[2].op = "set"
    /\ mlog[1].key = mlog[2].key /\ mlog[1].val # mlog[2].val
    /\ Len(mlog) = 2
    /\ lastOp = "getitem"
    /\ mres.kind = "ok" /\ mres.val = mlog[2].val

\* ========================================================== release claims
\* C16: release() drains the stream: once it is suspended it ends (returns,
\* or is cancelled) provided end-of-file is fed; when it has returned the
\* stream is at end-of-file and can_read_body is false; no step of release()
\* changes _read_bytes; and a release() called at end-of-file completes no
\* readany().
C16_ReleaseDrains ==
    /\ [](\A t \in Tasks :
             (result[t].op = "release" /\ result[t].kind = "ok") =>
                 (at_eof /\ ~CanReadBodyValue))
    /\ [][lastOp' = "release" => _read_bytes' = _read_bytes]_vars
    /\ [][(lastOp' = "release" /\ pc["t1"] = "idle" /\ at_eof) =>
              (nreadany' = nreadany /\ pos' = pos /\ pc'["t1"] = "idle")]_vars
    /\ (pc["t1"] = "rel_await") ~> (pc["t1"] = "idle")

\* release() has returned after dropping two chunks, the cache still unset.
C16_Witness ==
    /\ lastOp = "release"
    /\ result["t1"].op = "release" /\ result["t1"].kind = "ok"
    /\ pos - callStart["t1"] >= 2
    /\ at_eof
    /\ _read_bytes = None

\* release() has returned at once on a stream that read() had drained.
ReleaseAtEofReached ==
    /\ lastOp = "release"
    /\ result["t1"].op = "release" /\ result["t1"].kind = "ok"
    /\ callStart["t1"] = pos
    /\ _read_bytes # None /\ _read_bytes[1] # <<>>

\* ============================================================ limit claims
\* C17 as stated: with client_max_size zero, or left out at construction,
\* read() never fails at the size check and returns the concatenation of the
\* chunks, whatever their total size.
C17_NoLimitWhenZeroOrUnset ==
    \A t \in Tasks :
        (ReadJustEnded(t) /\ max_size_arg \in Given({0}) \cup LeftOut) =>
            /\ result[t].kind = "ok"
            /\ result[t].val = Concat(RestAtCall(t))

\* C17 amended: client_max_size zero disables the limit; left out, it is
\* 1024**2, and read() fails right after the chunk with which the
\* accumulated size reaches 1024**2 bytes.
C17_ZeroDisablesDefaultLimits ==
    \A t \in Tasks :
        ReadJustEnded(t) =>
            LET rest == RestAtCall(t)
            IN  /\ max_size_arg = Some(0) =>
                      /\ client_max_size = 0
                      /\ result[t].kind = "ok"
                      /\ result[t].val = Concat(rest)
                /\ max_size_arg = None =>
                      /\ client_max_size = DefaultClientMaxSize
                      /\ IF Crossings(rest, DefaultClientMaxSize) # {}
                         THEN /\ result[t].kind = "NameError"
                              /\ pos = callStart[t]
                                         + FirstCrossing(rest, DefaultClientMaxSize)
                         ELSE /\ result[t].kind = "ok"
                              /\ result[t].val = Concat(rest)

\* On a Request built without client_max_size, read() has failed at the
\* size check on a chunk of 1024**2 bytes that followed a small one.
C17_Witness ==
    /\ ReadJustEnded("t1")
    /\ max_size_arg = None
    /\ result["t1"].kind = "NameError"
    /\ callStart["t1"] = 0
    /\ pos = 2
    /\ payload0[1] = <<1>>

\* With client_max_size 0, read() has returned a body of 2 * 1024**2 bytes.
BigBodyReadReached ==
    /\ ReadJustEnded("t1")
    /\ max_size_arg = Some(0)
    /\ result["t1"].kind = "ok"
    /\ result["t1"].val = <<0, 0>>

\* ======================================================== WebSocket claims
\* The adapter's state in the terms of the session: created until the
\* handshake, accepted after it, active once a frame has gone either way,
\* closed once either side has closed.
AdapterState ==
    IF ws_app = "none" THEN "none"
    ELSE IF ws_app = "DISCONNECTED" \/ ws_client = "DISCONNECTED" THEN "closed"
    ELSE IF ws_app = "CONNECTING" THEN "created"
    ELSE IF sent + Len(received) > 0 THEN "active"
    ELSE "accepted"

Rank(st) ==
    CASE st = "none" -> 0
      [] st = "created" -> 1
      [] st = "accepted" -> 2
      [] st = "active" -> 3
      [] st = "closed" -> 4

\* C18: the adapter only moves forward through created, accepted, active,
\* closed; get_ws() returns it in state created with no accept() made, and
\* only prepare makes one; when the peer's disconnect is received by
\* __anext__, the adapter has made exactly one close(), is closed, and
\* __anext__ ends with StopAsyncIteration, never with the disconnect error.
C18_AdapterSession ==
    /\ [][Rank(AdapterState') >= Rank(AdapterState)]_vars
    /\ [][naccept' # naccept => (lastOp' = "prepare" /\ AdapterState = "created")]_vars
    /\ [](lastOp = "get_ws" => (AdapterState = "created" /\ naccept = 0))
    /\ [](AdapterState \in {"accepted", "active"} => naccept = 1)
    /\ []((ws_client = "DISCONNECTED" /\ wpc = "idle") =>
             /\ wres.op = "anext"
             /\ wres.kind = "StopAsyncIteration"
             /\ nclose = 1
             /\ AdapterState = "closed")
    /\ [](wres.kind = "StopAsyncIteration" => ws_client = "DISCONNECTED")
    /\ [](nclose <= 1)

\* After a handshake, a frame sent and a frame received, the peer has
\* disconnected and iteration has ended with one close().
C18_Witness ==
    /\ wres.op = "anext" /\ wres.kind = "StopAsyncIteration"
    /\ naccept = 1
    /\ sent >= 1
    /\ Len(received) >= 1
    /\ nclose = 1
    /\ ws_client = "DISCONNECTED" /\ ws_app = "DISCONNECTED"

\* ====================================================== whole-body claims
\* The chunks the stream has delivered since the Request was built.
Delivered == SubSeq(payload0, 1, pos)

\* C19: in one task, whatever read() and release() calls came before - failed
\* and cancelled ones included - a read() that returns returns the
\* concatenation of all chunks delivered since construction, and _read_bytes,
\* when set, is that concatenation.
C19_ReadReturnsWholeBody ==
    /\ \A t \in Tasks :
          (result[t].op = "read" /\ result[t].kind = "ok") =>
              result[t].val = Concat(Delivered)
    /\ _read_bytes # None => _read_bytes[1] = Concat(Delivered)

\* What read() returns and caches instead: the chunks that were left when
\* the call that drained the stream began.
ReadReturnsRestAtCall ==
    \A t \in Tasks :
        (ReadJustEnded(t) /\ result[t].kind = "ok") =>
            /\ result[t].val = Concat(RestAtCall(t))
            /\ _read_bytes = Some(Concat(RestAtCall(t)))

\* After a read() cancelled past the first chunk, read() has returned and
\* cached the second chunk alone.
TailCachedReached ==
    /\ ReadJustEnded("t1")
    /\ result["t1"].kind = "ok"
    /\ callStart["t1"] = 1
    /\ Len(payload0) = 2
    /\ _read_bytes = Some(payload0[2])

\* After release() dropped a non-empty body, read() has returned b"".
EmptyAfterReleaseReached ==
    /\ ReadJustEnded("t1")
    /\ result["t1"].kind = "ok"
    /\ result["t1"].val = <<>>
    /\ payload0 # <<>>

\* C20: when two tasks call read() on one Request and their readany() calls
\* interleave, each read() that returns returns the concatenation of all
\* chunks, and _read_bytes, when set, is that concatenation.
C20_ConcurrentReadsWhole ==
    /\ \A t \in Tasks :
          (result[t].op = "read" /\ result[t].kind = "ok") =>
              result[t].val = Concat(payload0)
    /\ _read_bytes # None => _read_bytes[1] = Concat(payload0)

\* Both tasks were inside read() at once; each has returned one of the two
\* chunks, and the cache holds the one of the call that returned last.
SplitBodyReached ==
    /\ Len(payload0) = 2
    /\ result["t1"].kind = "ok" /\ result["t2"].kind = "ok"
    /\ result["t1"].val = payload0[1]
    /\ result["t2"].val = payload0[2]
    /\ _read_bytes = Some(payload0[2])
    /\ Len(okReads) = 2

====
